---- MODULE Spec2Model ----
(***************************************************************************)
(* Restore orchestration of glacier-retrieve (AWS SDK variant).            *)
(*                                                                         *)
(* One run of one command (dry-run, restore, status) against one bucket.   *)
(* Every provider call (ListObjectsV2, RestoreObject, HeadObject) is one    *)
(* step: the request, the provider's answer, and all the code that runs     *)
(* until the next await or the return.  The provider is the environment:   *)
(* it holds the bucket's objects, cuts them into pages as it likes, and     *)
(* accepts, rejects or fails each request nondeterministically.            *)
(***************************************************************************)
EXTENDS Integers, Sequences, FiniteSets, TLC

(***************************************************************************)
(* Bounds of the model.                                                    *)
(***************************************************************************)
\* Keys of a bucket are 1..NumKeys; the number is the key's rank in
\* lexicographic order ("a" < "b" < "c").  A bucket holds each key at most once.
NumKeys == 3
\* The provider ends its chain of continuation tokens within this many pages.
MaxPages == 2
\* The largest bucket of the runs that go through every storage class string.
MaxTierObjects == 2
\* The number of archival objects of the bucket of the bulk restore.
BulkSize == 10

(***************************************************************************)
(* Values.                                                                 *)
(***************************************************************************)
\* An optional value of JavaScript: undefined is <<>>, a present value v is <<v>>.
Undefined == <<>>
Some(v) == <<v>>

\* a || b on an optional value whose falsy present value is `falsy` (0, '').
OrElse(opt, falsy, default) ==
    IF opt = Undefined \/ opt[1] = falsy THEN default ELSE opt[1]

\* The empty key '' of `obj.Key || ''`, below every real key.
EmptyKey == 0

Keys == 1..NumKeys
BucketName == "my-bucket"
Causes == {"AccessDenied", "Timeout"}

\* What the provider reports for one object, beside its key: Size and
\* StorageClass, each optional in the SDK's response type.
EntryShapes ==
    { [Size |-> Some(100), StorageClass |-> Some("GLACIER")],
      [Size |-> Some(50),  StorageClass |-> Some("DEEP_ARCHIVE")],
      [Size |-> Some(100), StorageClass |-> Some("STANDARD")],
      [Size |-> Undefined, StorageClass |-> Undefined] }

Entries ==
    { [Key |-> Some(k), Size |-> s.Size, StorageClass |-> s.StorageClass] :
        k \in Keys, s \in EntryShapes }

\* The buckets: every listing order of every set of distinct keys.
Datasets ==
    { d \in UNION { [1..n -> Entries] : n \in 0..NumKeys } :
        \A i, j \in DOMAIN d : i # j => d[i].Key # d[j].Key }

\* The buckets listed in ascending key order, key i at place i.
OrderedDatasets == { d \in Datasets : \A i \in DOMAIN d : d[i].Key = Some(i) }

\* The StorageClass strings a listing may carry: the three archival classes,
\* other classes, a look-alike, the empty string, and none.
TierStrings ==
    { Some("GLACIER"), Some("DEEP_ARCHIVE"), Some("GLACIER_IR"), Some("STANDARD"),
      Some("STANDARD_IA"), Some("glacier"), Some(""), Undefined }

\* The buckets of up to MaxTierObjects objects of one size, listed in key order,
\* with every choice of StorageClass.
TierDatasets ==
    { d \in UNION { [ 1..n -> [ Key : { Some(k) : k \in 1..MaxTierObjects },
                                Size : {Some(100)}, StorageClass : TierStrings ] ] :
                    n \in 0..MaxTierObjects } :
        \A i \in DOMAIN d : d[i].Key = Some(i) }

Commands == {"dry-run", "restore", "status"}

(***************************************************************************)
(* Pure functions of the tool.                                             *)
(***************************************************************************)
\* getBucketObjects, the push of one listed entry.
ToS3ObjectUnknownDefault(obj) ==
    [ key          |-> OrElse(obj.Key, EmptyKey, EmptyKey),
      size         |-> OrElse(obj.Size, 0, 0),
      storageClass |-> OrElse(obj.StorageClass, "", "UNKNOWN") ]

ToS3Object(obj) ==
    [ key          |-> OrElse(obj.Key, EmptyKey, EmptyKey),
      size         |-> OrElse(obj.Size, 0, 0),
      storageClass |-> OrElse(obj.StorageClass, "", "STANDARD") ]

ToS3Objects(contents) == [ i \in DOMAIN contents |-> ToS3Object(contents[i]) ]

glacierStorageClasses == {"GLACIER", "DEEP_ARCHIVE", "GLACIER_IR"}

IsGlacierWithoutInstantRetrieval(obj) == obj.storageClass \in {"GLACIER", "DEEP_ARCHIVE"}

IsGlacier(obj) == obj.storageClass \in glacierStorageClasses

RECURSIVE filterGlacierObjects(_)
filterGlacierObjects(objs) ==
    IF objs = <<>> THEN <<>>
    ELSE IF IsGlacier(Head(objs))
         THEN <<Head(objs)>> \o filterGlacierObjects(Tail(objs))
         ELSE filterGlacierObjects(Tail(objs))

RECURSIVE SumSizes(_)
SumSizes(objs) ==
    IF objs = <<>> THEN 0 ELSE Head(objs).size + SumSizes(Tail(objs))

\* The comparator of glacierObjects.sort: negative when a goes before b.
CompareSizeAscending(a, b) == a.size - b.size

CompareSize(a, b) == b.size - a.size

\* Array.prototype.sort is stable: x goes before the first element that the
\* comparator puts strictly after it, and behind every element it ties with.
RECURSIVE InsertSorted(_, _)
InsertSorted(sorted, x) ==
    IF sorted = <<>> THEN <<x>>
    ELSE IF CompareSize(Head(sorted), x) > 0 THEN <<x>> \o sorted
    ELSE <<Head(sorted)>> \o InsertSorted(Tail(sorted), x)

RECURSIVE SortFrom(_, _)
SortFrom(sorted, rest) ==
    IF rest = <<>> THEN sorted
    ELSE SortFrom(InsertSorted(sorted, Head(rest)), Tail(rest))

SortBySize(objs) == SortFrom(<<>>, objs)

TotalOfAllObjects(allObjects, glacier) == SumSizes(allObjects)

TotalSize(allObjects, glacier) == SumSizes(glacier)

\* dryRunRestore after the listing: the RestoreOperation it returns.
PlanOf(allObjects) ==
    IF Len(allObjects) = 0
    THEN [objects |-> <<>>, totalSize |-> 0]
    ELSE LET glacier == filterGlacierObjects(allObjects)
         IN  [ objects   |-> IF Len(glacier) = 0 THEN glacier ELSE SortBySize(glacier),
               totalSize |-> TotalSize(allObjects, glacier) ]

(***************************************************************************)
(* State.                                                                  *)
(***************************************************************************)
VARIABLES
    dataset,            \* provider: the bucket's entries, in listing order
    served,             \* provider: how many entries it has returned so far
    issued,             \* provider: NextContinuationToken of its last response
    listFailure,        \* provider: the cause of the listing request it failed, if any
    cmd,                \* the command of this run
    dryRun,             \* restoreObjects' dryRun parameter
    sent,               \* the requests handed to s3Client.send, in order
    pc,                 \* "list", "restore", "status", "done", "failed"
    objects,            \* getBucketObjects: objects (the caller's allObjects)
    continuationToken,  \* getBucketObjects: continuationToken
    listCalls,          \* number of ListObjectsV2 requests sent
    operation,          \* restoreObjects: operation
    idx,                \* place of the for-of loop in its array
    successCount,       \* restoreObjects: successCount
    errorCount,         \* restoreObjects: errorCount
    restoreCalls,       \* keys of the RestoreObject requests sent, in order
    outcomes,           \* provider: TRUE where it accepted the request
    glacierObjects,     \* checkRestoreStatus: glacierObjects
    statusResults,      \* checkRestoreStatus: statusResults
    headCalls,          \* keys of the HeadObject requests sent, in order
    headAnswers,        \* provider: its response to each, Undefined where it failed
    console,            \* progress and summary lines written so far
    result,             \* value returned to main, Undefined until then
    error               \* error thrown to main, Undefined unless thrown

provider == <<dataset, served, issued, listFailure>>
listing == <<objects, continuationToken, listCalls>>
submission == <<operation, successCount, errorCount, restoreCalls, outcomes>>
polling == <<glacierObjects, statusResults, headCalls, headAnswers>>
vars == <<provider, cmd, dryRun, sent, pc, listing, idx, submission, polling, console, result, error>>

NoOperation == [objects |-> <<>>, totalSize |-> 0]

InitRun ==
    /\ sent = <<>>
    /\ served = 0
    /\ issued = Undefined
    /\ listFailure = Undefined
    /\ pc = "list"
    /\ objects = <<>>
    /\ continuationToken = Undefined
    /\ listCalls = 0
    /\ operation = NoOperation
    /\ idx = 0
    /\ successCount = 0
    /\ errorCount = 0
    /\ restoreCalls = <<>>
    /\ outcomes = <<>>
    /\ glacierObjects = <<>>
    /\ statusResults = <<>>
    /\ headCalls = <<>>
    /\ headAnswers = <<>>
    /\ console = <<>>
    /\ result = Undefined
    /\ error = Undefined

\* main: the command and its bucket.  The dry-run and restore runs see every
\* listing order; the status runs see the buckets listed in key order.
Init ==
    /\ cmd \in Commands
    /\ dryRun \in (IF cmd = "restore" THEN BOOLEAN ELSE {FALSE})
    /\ dataset \in (IF cmd = "status" THEN OrderedDatasets ELSE Datasets)
    /\ InitRun

(***************************************************************************)
(* The provider.                                                           *)
(***************************************************************************)
\* A continuation token names the place in the listing where the next page
\* starts; a request without one starts at the first entry.
Offset(token) == IF token = Undefined THEN 0 ELSE token[1]

\* The answers the provider may give to a ListObjectsV2 request: the next k
\* entries, k >= 0, with a token unless the listing is exhausted (an exhausted
\* listing may still end in one more, empty, page).  Contents is absent or an
\* empty array when the page has no entry.  The chain of tokens ends within
\* MaxPages pages.
ListResponses(request, calls) ==
    LET from == Offset(request.ContinuationToken)
        last == calls + 1 = MaxPages
        left == Len(dataset) - from
        Contents(k) == { Some(SubSeq(dataset, from + 1, from + k)) } \cup
                       (IF k = 0 THEN {Undefined} ELSE {})
        Tokens(k) == (IF last THEN {} ELSE {Some(from + k)}) \cup
                     (IF k = left THEN {Undefined} ELSE {})
        Pages(k) == { [ Contents |-> c, NextContinuationToken |-> t, upTo |-> from + k ] :
                        c \in Contents(k), t \in Tokens(k) }
    IN  UNION { Pages(k) : k \in { n \in 0..left : last => n = left } }

\* The Restore header of a HeadObject response, as the fields name="value" it
\* holds, in order.
Markers ==
    { Undefined,
      Some(<< [name |-> "ongoing-request", value |-> "true"] >>),
      Some(<< [name |-> "ongoing-request", value |-> "false"],
              [name |-> "expiry-date", value |-> "2024-01-01"] >>),
      Some(<< [name |-> "ongoing-request", value |-> "false"] >>),
      Some(<< [name |-> "ongoing-request", value |-> "false"],
              [name |-> "expiry-date", value |-> ""] >>),
      Some(<< [name |-> "ongoing-request", value |-> "true"],
              [name |-> "expiry-date", value |-> "2024-01-01"] >>),
      Some(<< [name |-> "expiry-date", value |-> "2024-01-01"] >>),
      Some(<< [name |-> "ongoing-request", value |-> "false"],
              [name |-> "expiry-date", value |-> "not-a-date"] >>),
      Some(<<>>) }

\* The bucket's entry of a key.
EntryOf(key) == CHOOSE e \in { dataset[i] : i \in DOMAIN dataset } : e.Key = Some(key)

HeadResponses(key) ==
    { [ Restore |-> m, StorageClass |-> EntryOf(key).StorageClass,
        ContentLength |-> EntryOf(key).Size ] : m \in Markers }

(***************************************************************************)
(* getBucketObjects.                                                       *)
(***************************************************************************)
ListObjectsV2CommandWithoutToken(token) ==
    [Bucket |-> BucketName, ContinuationToken |-> Undefined]

ListObjectsV2Command(token) ==
    [Bucket |-> BucketName, ContinuationToken |-> token]

PushContentsReplacing(objs, contents) ==
    IF contents # Undefined THEN ToS3Objects(contents[1]) ELSE objs

\* if (response.Contents) for (const obj of response.Contents) objects.push(..)
PushContents(objs, contents) ==
    IF contents # Undefined THEN objs \o ToS3Objects(contents[1]) ELSE objs

\* throw new Error(...): the error reaches main, which exits with status 1.
Throw(err) ==
    /\ pc' = "failed"
    /\ error' = Some(err)
    /\ result' = Undefined
    /\ UNCHANGED <<operation, idx, glacierObjects, console>>

ListingFailed(cause) ==
    [message |-> "Failed to list objects in bucket", bucket |-> BucketName, cause |-> cause]

(***************************************************************************)
(* dryRunRestore, restoreObjects and checkRestoreStatus after the listing. *)
(***************************************************************************)
ShouldSubmitIgnoringDryRun(op) == ~(Len(op.objects) = 0)

\* if (dryRun || operation.objects.length === 0) return operation;
ShouldSubmit(op) == ~(dryRun \/ Len(op.objects) = 0)

Summary(sc, ec) == [kind |-> "summary", successCount |-> sc, errorCount |-> ec]

ProgressEvery == 10

Progress(n, total) == [kind |-> "progress", processed |-> n, total |-> total]

\* main, dry-run: dryRunRestore returns the plan.
DryRunReturn(allObjects) ==
    /\ operation' = PlanOf(allObjects)
    /\ result' = Some(operation')
    /\ pc' = "done"
    /\ UNCHANGED <<idx, glacierObjects, console, error>>

\* main, restore: restoreObjects returns the plan at once, or enters its loop.
RestoreContinue(allObjects) ==
    /\ operation' = PlanOf(allObjects)
    /\ UNCHANGED <<glacierObjects, error>>
    /\ IF ~ShouldSubmit(operation')
       THEN /\ result' = Some(operation')
            /\ pc' = "done"
            /\ UNCHANGED <<idx, console>>
       ELSE IF Len(operation'.objects) = 0
       THEN /\ console' = Append(console, Summary(0, 0))
            /\ result' = Some(operation')
            /\ pc' = "done"
            /\ UNCHANGED idx
       ELSE /\ idx' = 1
            /\ pc' = "restore"
            /\ UNCHANGED <<result, console>>

EmptySummary ==
    [ bucketName |-> BucketName, glacierObjects |-> <<>>, inProgress |-> <<>>,
      completed |-> <<>>, notRequested |-> <<>>,
      totalSizeInProgress |-> 0, totalSizeCompleted |-> 0 ]

StatusContinueSorted(allObjects) ==
    /\ glacierObjects' = SortBySize(filterGlacierObjects(allObjects))
    /\ UNCHANGED <<operation, console, error>>
    /\ IF Len(glacierObjects') = 0
       THEN /\ result' = Some(EmptySummary)
            /\ pc' = "done"
            /\ UNCHANGED idx
       ELSE /\ idx' = 1
            /\ pc' = "status"
            /\ UNCHANGED result

\* main, status: checkRestoreStatus returns the empty summary, or enters its loop.
StatusContinue(allObjects) ==
    /\ glacierObjects' = filterGlacierObjects(allObjects)
    /\ UNCHANGED <<operation, console, error>>
    /\ IF Len(glacierObjects') = 0
       THEN /\ result' = Some(EmptySummary)
            /\ pc' = "done"
            /\ UNCHANGED idx
       ELSE /\ idx' = 1
            /\ pc' = "status"
            /\ UNCHANGED result

AfterListingEmptyIsError(allObjects) ==
    IF Len(allObjects) = 0 THEN Throw([message |-> "No objects found", bucket |-> BucketName])
    ELSE IF cmd = "dry-run" THEN DryRunReturn(allObjects)
    ELSE IF cmd = "restore" THEN RestoreContinue(allObjects)
    ELSE StatusContinue(allObjects)

\* getBucketObjects returns allObjects to the command that called it.
AfterListing(allObjects) ==
    IF cmd = "dry-run" THEN DryRunReturn(allObjects)
    ELSE IF cmd = "restore" THEN RestoreContinue(allObjects)
    ELSE StatusContinue(allObjects)

ListObjectsOkFirstPageOnly ==
    /\ pc = "list"
    /\ listCalls < MaxPages
    /\ \E response \in ListResponses(ListObjectsV2Command(continuationToken), listCalls) :
         /\ listCalls' = listCalls + 1
         /\ served' = response.upTo
         /\ issued' = response.NextContinuationToken
         /\ objects' = PushContents(objects, response.Contents)
         /\ continuationToken' = response.NextContinuationToken
         /\ AfterListing(objects')
    /\ UNCHANGED <<dataset, listFailure, cmd, dryRun, sent, successCount, errorCount,
                   restoreCalls, outcomes, statusResults, headCalls, headAnswers>>

\* One iteration of the do-while loop whose request the provider answers.
ListObjectsOk ==
    /\ pc = "list"
    /\ listCalls < MaxPages
    /\ \E response \in ListResponses(ListObjectsV2Command(continuationToken), listCalls) :
         /\ listCalls' = listCalls + 1
         /\ served' = response.upTo
         /\ issued' = response.NextContinuationToken
         /\ objects' = PushContents(objects, response.Contents)
         /\ continuationToken' = response.NextContinuationToken
         /\ IF continuationToken' # Undefined
            THEN UNCHANGED <<pc, operation, idx, glacierObjects, console, result, error>>
            ELSE AfterListing(objects')
    /\ UNCHANGED <<dataset, listFailure, cmd, dryRun, sent, successCount, errorCount,
                   restoreCalls, outcomes, statusResults, headCalls, headAnswers>>

ListObjectsFailedSwallowed ==
    /\ pc = "list"
    /\ listCalls < MaxPages
    /\ \E cause \in Causes :
         /\ listCalls' = listCalls + 1
         /\ listFailure' = Some(cause)
         /\ AfterListing(objects)
    /\ UNCHANGED <<dataset, served, issued, cmd, dryRun, sent, objects, continuationToken,
                   successCount, errorCount, restoreCalls, outcomes, statusResults,
                   headCalls, headAnswers>>

\* One iteration whose request fails: the catch block rethrows, the objects
\* pushed so far are lost with the call.
ListObjectsFailed ==
    /\ pc = "list"
    /\ listCalls < MaxPages
    /\ \E cause \in Causes :
         /\ listCalls' = listCalls + 1
         /\ listFailure' = Some(cause)
         /\ objects' = <<>>
         /\ continuationToken' = Undefined
         /\ Throw(ListingFailed(cause))
    /\ UNCHANGED <<dataset, served, issued, cmd, dryRun, sent, successCount, errorCount,
                   restoreCalls, outcomes, statusResults, headCalls, headAnswers>>

(***************************************************************************)
(* restoreObjects: the submission loop.                                    *)
(***************************************************************************)
\* The end of one iteration with the log and the counters it leaves: the next
\* object, or after the last one the summary lines and the return.
EndOfIterationReturnsAccepted(log, sc, ec) ==
    IF idx = Len(operation.objects)
    THEN /\ console' = Append(log, Summary(sc, ec))
         /\ result' = Some([operation EXCEPT !.objects = SubSeq(operation.objects, 1, sc)])
         /\ pc' = "done"
         /\ UNCHANGED idx
    ELSE /\ console' = log
         /\ idx' = idx + 1
         /\ UNCHANGED <<result, pc>>

\* The end of one iteration of the loop of restoreObjects, and after the last
\* one the summary lines and the return of the plan.
EndOfIteration(log, sc, ec) ==
    IF idx = Len(operation.objects)
    THEN /\ console' = Append(log, Summary(sc, ec))
         /\ result' = Some(operation)
         /\ pc' = "done"
         /\ UNCHANGED idx
    ELSE /\ console' = log
         /\ idx' = idx + 1
         /\ UNCHANGED <<result, pc>>

\* The provider accepts the RestoreObject request for the current object.
RestoreAccepted ==
    /\ pc = "restore"
    /\ LET obj == operation.objects[idx]
           sc == successCount + 1
           log == IF sc % ProgressEvery = 0
                  THEN Append(console, Progress(sc, Len(operation.objects)))
                  ELSE console
       IN  /\ restoreCalls' = Append(restoreCalls, obj.key)
           /\ outcomes' = Append(outcomes, TRUE)
           /\ successCount' = sc
           /\ UNCHANGED errorCount
           /\ EndOfIteration(log, sc, errorCount)
    /\ UNCHANGED <<provider, cmd, dryRun, sent, listing, operation, polling, error>>

RestoreRejectedAborts ==
    /\ pc = "restore"
    /\ LET obj == operation.objects[idx]
       IN  /\ restoreCalls' = Append(restoreCalls, obj.key)
           /\ outcomes' = Append(outcomes, FALSE)
           /\ pc' = "failed"
           /\ error' = Some([message |-> "Failed to restore", key |-> obj.key])
    /\ UNCHANGED <<provider, cmd, dryRun, sent, listing, operation, idx, successCount,
                   errorCount, polling, console, result>>

RestoreRejectedRetries ==
    /\ pc = "restore"
    /\ LET obj == operation.objects[idx]
       IN  /\ restoreCalls' = Append(restoreCalls, obj.key)
           /\ outcomes' = Append(outcomes, FALSE)
           /\ errorCount' = errorCount + 1
           /\ console' = Append(console, [kind |-> "failed", key |-> obj.key])
    /\ UNCHANGED <<provider, cmd, dryRun, sent, listing, operation, idx, successCount,
                   polling, pc, result, error>>

RestoreRejectedUncounted ==
    /\ pc = "restore"
    /\ LET obj == operation.objects[idx]
       IN  /\ restoreCalls' = Append(restoreCalls, obj.key)
           /\ outcomes' = Append(outcomes, FALSE)
           /\ UNCHANGED <<successCount, errorCount>>
           /\ EndOfIteration(Append(console, [kind |-> "failed", key |-> obj.key]),
                             successCount, errorCount)
    /\ UNCHANGED <<provider, cmd, dryRun, sent, listing, operation, polling, error>>

\* The provider rejects the request: the catch block counts and warns, and the
\* loop goes on.
RestoreRejected ==
    /\ pc = "restore"
    /\ LET obj == operation.objects[idx]
           ec == errorCount + 1
       IN  /\ restoreCalls' = Append(restoreCalls, obj.key)
           /\ outcomes' = Append(outcomes, FALSE)
           /\ errorCount' = ec
           /\ UNCHANGED successCount
           /\ EndOfIteration(Append(console, [kind |-> "failed", key |-> obj.key]),
                             successCount, ec)
    /\ UNCHANGED <<provider, cmd, dryRun, sent, listing, operation, polling, error>>

(***************************************************************************)
(* checkRestoreStatus: the polling loop.                                   *)
(***************************************************************************)
\* restoreInfo.includes('name="value"')
Includes(restoreInfo, n, v) ==
    \E i \in DOMAIN restoreInfo : restoreInfo[i] = [name |-> n, value |-> v]

ExpiryMatchNever(restoreInfo) == Undefined

\* restoreInfo.match(/expiry-date="([^"]+)"/): the first non-empty expiry-date.
ExpiryMatch(restoreInfo) ==
    LET hits == { i \in DOMAIN restoreInfo :
                    restoreInfo[i].name = "expiry-date" /\ restoreInfo[i].value # "" }
    IN  IF hits = {} THEN Undefined
        ELSE Some(restoreInfo[CHOOSE i \in hits : \A j \in hits : i <= j].value)

RestoreStatusOfElseCompleted(objectKey, response) ==
    LET present == response.Restore # Undefined /\ response.Restore[1] # <<>>
        restoreInfo == response.Restore[1]
        finished == present /\ Includes(restoreInfo, "ongoing-request", "false")
        ongoing == present /\ ~finished
    IN  [ key |-> objectKey,
          storageClass |-> OrElse(response.StorageClass, "", "STANDARD"),
          restoreStatus |-> IF ongoing THEN "in-progress"
                            ELSE IF finished THEN "completed" ELSE "not-requested",
          restoreExpiryDate |-> IF finished THEN ExpiryMatch(restoreInfo) ELSE Undefined,
          size |-> OrElse(response.ContentLength, 0, 0) ]

\* getObjectRestoreStatus, the try block on a response.
RestoreStatusOf(objectKey, response) ==
    LET present == response.Restore # Undefined /\ response.Restore[1] # <<>>
        restoreInfo == response.Restore[1]
        ongoing == present /\ Includes(restoreInfo, "ongoing-request", "true")
        finished == present /\ ~ongoing /\ Includes(restoreInfo, "ongoing-request", "false")
    IN  [ key |-> objectKey,
          storageClass |-> OrElse(response.StorageClass, "", "STANDARD"),
          restoreStatus |-> IF ongoing THEN "in-progress"
                            ELSE IF finished THEN "completed" ELSE "not-requested",
          restoreExpiryDate |-> IF finished THEN ExpiryMatch(restoreInfo) ELSE Undefined,
          size |-> OrElse(response.ContentLength, 0, 0) ]

RestoreStatusOnErrorUnknown(objectKey) ==
    [ key |-> objectKey, storageClass |-> "UNKNOWN", restoreStatus |-> "unknown",
      restoreExpiryDate |-> Undefined, size |-> 0 ]

\* getObjectRestoreStatus, the catch block.
RestoreStatusOnError(objectKey) ==
    [ key |-> objectKey, storageClass |-> "UNKNOWN", restoreStatus |-> "not-requested",
      restoreExpiryDate |-> Undefined, size |-> 0 ]

RECURSIVE WithStatus(_, _)
WithStatus(results, status) ==
    IF results = <<>> THEN <<>>
    ELSE IF Head(results).restoreStatus = status
         THEN <<Head(results)>> \o WithStatus(Tail(results), status)
         ELSE WithStatus(Tail(results), status)

TotalOfAll(results, status) == SumSizes(results)

\* inProgress.reduce((sum, obj) => sum + obj.size, 0), and completed likewise.
TotalOf(results, status) == SumSizes(WithStatus(results, status))

\* checkRestoreStatus, after the loop.
SummaryOf(results) ==
    [ bucketName |-> BucketName,
      glacierObjects |-> glacierObjects,
      inProgress |-> WithStatus(results, "in-progress"),
      completed |-> WithStatus(results, "completed"),
      notRequested |-> WithStatus(results, "not-requested"),
      totalSizeInProgress |-> TotalOf(results, "in-progress"),
      totalSizeCompleted |-> TotalOf(results, "completed") ]

\* new Date(text) is a valid date.
IsDate(text) == text \in {"2024-01-01"}

\* new Date(text).toLocaleDateString(), in the en-US locale.
ToLocaleDateString(text) ==
    IF ~IsDate(text) THEN "Invalid Date"
    ELSE CASE text = "2024-01-01" -> "1/1/2024"

\* displayRestoreStatus: what follows "Expires:" on the line of a completed object.
ExpiryShown(status) ==
    IF status.restoreExpiryDate = Undefined THEN "Unknown"
    ELSE ToLocaleDateString(status.restoreExpiryDate[1])

\* One iteration of the polling loop: the provider's answer to the HeadObject
\* request and the status getObjectRestoreStatus made of it.
Polled(answer, status) ==
    LET results == Append(statusResults, status)
        processed == Len(results)
    IN  /\ headCalls' = Append(headCalls, status.key)
        /\ headAnswers' = Append(headAnswers, answer)
        /\ statusResults' = results
        /\ console' = IF processed % ProgressEvery = 0
                      THEN Append(console, Progress(processed, Len(glacierObjects)))
                      ELSE console
        /\ IF idx = Len(glacierObjects)
           THEN /\ result' = Some(SummaryOf(results))
                /\ pc' = "done"
                /\ UNCHANGED idx
           ELSE /\ idx' = idx + 1
                /\ UNCHANGED <<result, pc>>

\* The provider answers the HeadObject request for the current object.
HeadObjectOk ==
    /\ pc = "status"
    /\ \E response \in HeadResponses(glacierObjects[idx].key) :
         Polled(Some(response), RestoreStatusOf(glacierObjects[idx].key, response))
    /\ UNCHANGED <<provider, cmd, dryRun, sent, listing, submission, glacierObjects, error>>

HeadObjectFailedThrows ==
    /\ pc = "status"
    /\ headCalls' = Append(headCalls, glacierObjects[idx].key)
    /\ headAnswers' = Append(headAnswers, Undefined)
    /\ pc' = "failed"
    /\ error' = Some([message |-> "HeadObject failed", key |-> glacierObjects[idx].key])
    /\ UNCHANGED <<provider, cmd, dryRun, sent, listing, idx, submission, glacierObjects,
                   statusResults, console, result>>

\* The HeadObject request fails.
HeadObjectFailed ==
    /\ pc = "status"
    /\ Polled(Undefined, RestoreStatusOnError(glacierObjects[idx].key))
    /\ UNCHANGED <<provider, cmd, dryRun, sent, listing, submission, glacierObjects, error>>

(***************************************************************************)
(* The run.                                                                *)
(***************************************************************************)
Next ==
    \/ ListObjectsOk
    \/ ListObjectsFailed
    \/ RestoreAccepted
    \/ RestoreRejected
    \/ HeadObjectOk
    \/ HeadObjectFailed

Spec == Init /\ [][Next]_vars

\* A restore of a bucket of BulkSize archival objects.
BulkDataset ==
    [ i \in 1..BulkSize |->
        [Key |-> Some(i), Size |-> Some(100), StorageClass |-> Some("GLACIER")] ]

InitBulk ==
    /\ cmd = "restore"
    /\ dryRun = FALSE
    /\ dataset = BulkDataset
    /\ InitRun

NextBulk ==
    \/ ListObjectsOk
    \/ ListObjectsFailed
    \/ RestoreAccepted
    \/ RestoreRejected

SpecBulk == InitBulk /\ [][NextBulk]_vars

\* The same commands on the buckets that go through every storage class string.
InitTiers ==
    /\ cmd \in Commands
    /\ dryRun \in (IF cmd = "restore" THEN BOOLEAN ELSE {FALSE})
    /\ dataset \in TierDatasets
    /\ InitRun

SpecTiers == InitTiers /\ [][Next]_vars

(***************************************************************************)
(* The run with each `await this.s3Client.send(command)` in two steps: the *)
(* request is sent, and later it is settled by one of the actions above.   *)
(***************************************************************************)
\* The requests the provider has answered or failed.
Settled == listCalls + Len(restoreCalls) + Len(headCalls)

\* The requests sent and not settled yet.
Outstanding == Len(sent) - Settled

\* The tool is at an await.
Awaiting == Outstanding > 0

Request(command, key, token) ==
    [command |-> command, Key |-> key, ContinuationToken |-> token]

\* s3Client.send(command): the tool goes on to it only from a settled await.
Send(request) ==
    /\ ~Awaiting
    /\ sent' = Append(sent, request)
    /\ UNCHANGED <<provider, cmd, dryRun, pc, listing, idx, submission, polling,
                   console, result, error>>

SendListObjects ==
    /\ pc = "list"
    /\ Send(Request("ListObjectsV2", Undefined,
                    ListObjectsV2Command(continuationToken).ContinuationToken))

SendRestoreObjectWithoutAwait ==
    /\ pc = "restore"
    /\ Len(sent) < listCalls + Len(operation.objects)
    /\ sent' = Append(sent, Request("RestoreObject",
                                    Some(operation.objects[idx].key), Undefined))
    /\ UNCHANGED <<provider, cmd, dryRun, pc, listing, idx, submission, polling,
                   console, result, error>>

SendRestoreObject ==
    /\ pc = "restore"
    /\ Send(Request("RestoreObject", Some(operation.objects[idx].key), Undefined))

SendHeadObject ==
    /\ pc = "status"
    /\ Send(Request("HeadObject", Some(glacierObjects[idx].key), Undefined))

AwaitedListObjectsOk == Awaiting /\ ListObjectsOk
AwaitedListObjectsFailed == Awaiting /\ ListObjectsFailed
AwaitedRestoreAccepted == Awaiting /\ RestoreAccepted
AwaitedRestoreRejected == Awaiting /\ RestoreRejected
AwaitedHeadObjectOk == Awaiting /\ HeadObjectOk
AwaitedHeadObjectFailed == Awaiting /\ HeadObjectFailed

NextWire ==
    \/ SendListObjects
    \/ AwaitedListObjectsOk
    \/ AwaitedListObjectsFailed
    \/ SendRestoreObject
    \/ AwaitedRestoreAccepted
    \/ AwaitedRestoreRejected
    \/ SendHeadObject
    \/ AwaitedHeadObjectOk
    \/ AwaitedHeadObjectFailed

\* The buckets of archival and standard objects.
WireDatasets ==
    { d \in TierDatasets :
        \A i \in DOMAIN d : d[i].StorageClass \in {Some("GLACIER"), Some("STANDARD")} }

InitWire ==
    /\ cmd \in Commands
    /\ dryRun \in (IF cmd = "restore" THEN BOOLEAN ELSE {FALSE})
    /\ dataset \in WireDatasets
    /\ InitRun

\* Every request sent is answered or fails, and the tool goes on from there.
SpecWire == InitWire /\ [][NextWire]_vars /\ WF_vars(NextWire)

\* Every request the tool awaits is answered or fails: the run goes on while it
\* has a request to send.
SpecTiersFair == SpecTiers /\ WF_vars(Next)

(***************************************************************************)
(* What the provider holds, for the statements below.                      *)
(***************************************************************************)
ArchivalClasses == {Some("GLACIER"), Some("DEEP_ARCHIVE"), Some("GLACIER_IR")}

\* The places of the listing that hold an archival object.
ArchivalPlaces == { i \in DOMAIN dataset : dataset[i].StorageClass \in ArchivalClasses }

\* The place of a key in the listing.
PlaceOf(key) == CHOOSE i \in DOMAIN dataset : dataset[i].Key = Some(key)

\* The size the provider reports for a key, 0 when it reports none.
SizeOf(key) == IF dataset[PlaceOf(key)].Size = Undefined THEN 0
               ELSE dataset[PlaceOf(key)].Size[1]

Accepted == { i \in DOMAIN outcomes : outcomes[i] }
Rejected == { i \in DOMAIN outcomes : ~outcomes[i] }

\* The run is over: the command returned or threw.
Ended == pc \in {"done", "failed"}

(***************************************************************************)
(* Restore submission.                                                     *)
(***************************************************************************)
\* C1: partial-failure isolation.  A restore run that has sent a restore
\* request never throws, and when it ends every object of the plan behind a
\* rejected one has had its request.
C1_PartialFailureIsolation ==
    (cmd = "restore" /\ restoreCalls # <<>>) =>
        /\ pc # "failed"
        /\ error = Undefined
        /\ Ended =>
             \A i \in Rejected : \A j \in (i + 1)..Len(operation.objects) :
                 j \in DOMAIN restoreCalls /\ restoreCalls[j] = operation.objects[j].key

\* A finished restore run in which a rejected request was followed by others.
C1_Witness ==
    /\ cmd = "restore"
    /\ pc = "done"
    /\ \E i \in Rejected : \E j \in Rejected : i < j /\ j < Len(restoreCalls)

\* C2: one restore request per object of the plan, in plan order, which is by
\* size from the largest; no key is requested twice, rejected or not.
C2_OneRequestPerObjectInPlanOrder ==
    cmd = "restore" =>
        /\ Len(restoreCalls) <= Len(operation.objects)
        /\ \A i \in DOMAIN restoreCalls : restoreCalls[i] = operation.objects[i].key
        /\ \A i, j \in DOMAIN restoreCalls : i # j => restoreCalls[i] # restoreCalls[j]
        /\ \A i, j \in DOMAIN restoreCalls :
               i < j => SizeOf(restoreCalls[i]) >= SizeOf(restoreCalls[j])
        /\ (pc = "done" /\ ~dryRun) =>
               /\ Len(restoreCalls) = Cardinality(ArchivalPlaces)
               /\ Len(outcomes) = Len(restoreCalls)

\* A finished restore run with a rejected request, whose plan order is not the
\* listing order.
C2_Witness ==
    /\ cmd = "restore"
    /\ pc = "done"
    /\ Rejected # {}
    /\ Len(restoreCalls) = 3
    /\ PlaceOf(restoreCalls[1]) > PlaceOf(restoreCalls[2])

\* C3 as stated: restoreObjects returns the counts of accepted and rejected
\* requests, which add up to the size of the plan.
C3_ReturnsSubmissionOutcome ==
    (cmd = "restore" /\ pc = "done" /\ restoreCalls # <<>>) =>
        /\ {"successCount", "failureCount"} \subseteq DOMAIN result[1]
        /\ result[1].successCount = Cardinality(Accepted)
        /\ result[1].failureCount = Cardinality(Rejected)

\* C3, amended: restoreObjects returns the plan alone; the counts are the
\* loop's counters, written in its summary lines.  After the loop successCount
\* is the number of accepted requests, errorCount the number of rejected ones,
\* they add up to the size of the plan, every rejected key has its warning
\* line and every object, accepted or rejected, is in the returned plan.
C3_CountsInSummaryLines ==
    (cmd = "restore" /\ pc = "done" /\ restoreCalls # <<>>) =>
        /\ result = Some(operation)
        /\ DOMAIN result[1] = {"objects", "totalSize"}
        /\ successCount = Cardinality(Accepted)
        /\ errorCount = Cardinality(Rejected)
        /\ successCount + errorCount = Len(result[1].objects)
        /\ console[Len(console)] = Summary(Cardinality(Accepted), Cardinality(Rejected))
        /\ \A i \in DOMAIN restoreCalls :
               /\ \E j \in DOMAIN result[1].objects : result[1].objects[j].key = restoreCalls[i]
               /\ i \in Rejected <=>
                    \E j \in DOMAIN console :
                        console[j] = [kind |-> "failed", key |-> restoreCalls[i]]

\* A plan of two objects, one accepted and one rejected.
C3_Witness ==
    /\ cmd = "restore"
    /\ pc = "done"
    /\ Len(restoreCalls) = 2
    /\ Cardinality(Accepted) = 1
    /\ Cardinality(Rejected) = 1
    /\ successCount = 1
    /\ errorCount = 1

\* C4: the planner is read-only.  A dry-run, a restore run with dryRun set and
\* a restore run on a bucket without archival objects send no restore request
\* and no metadata query, at any time.
C4_PlannerIsReadOnly ==
    (cmd = "dry-run" \/ (cmd = "restore" /\ (dryRun \/ ArchivalPlaces = {}))) =>
        /\ restoreCalls = <<>>
        /\ outcomes = <<>>
        /\ headCalls = <<>>
        /\ pc \in {"list", "done", "failed"}

\* A restore run with dryRun set that returned a plan of several objects after
\* several listing requests.
C4_Witness ==
    /\ cmd = "restore"
    /\ dryRun
    /\ pc = "done"
    /\ listCalls > 1
    /\ Len(result[1].objects) > 1
    /\ restoreCalls = <<>>

(***************************************************************************)
(* Enumeration.                                                            *)
(***************************************************************************)
\* The command got its listing: getBucketObjects returned.
Listed == pc \in {"restore", "status", "done"}

\* C5: a failed listing request, the first or a later one, ends the run with
\* an error that names the bucket and the provider's cause; nothing is
\* returned, the objects of the earlier pages are gone, and no restore request
\* and no metadata query is sent.
C5_ListingFailureAborts ==
    listFailure # Undefined =>
        /\ pc = "failed"
        /\ error = Some([ message |-> "Failed to list objects in bucket",
                          bucket |-> BucketName, cause |-> listFailure[1] ])
        /\ result = Undefined
        /\ objects = <<>>
        /\ operation = NoOperation
        /\ glacierObjects = <<>>
        /\ restoreCalls = <<>>
        /\ headCalls = <<>>

\* A restore run whose second listing request failed after a first page that
\* held archival objects.
C5_Witness ==
    /\ cmd = "restore"
    /\ ~dryRun
    /\ listFailure # Undefined
    /\ listCalls = 2
    /\ served > 1
    /\ \A i \in 1..served : i \in ArchivalPlaces

\* C6: the loop of getBucketObjects.  The token it holds is the one the
\* provider gave last, and it goes on exactly while there is one; what it has
\* gathered is what the provider has returned so far, page after page, in the
\* provider's order, so that a page without entries adds nothing; an empty
\* bucket gives an empty sequence and no error.
C6_PagesConcatenatedWhileToken ==
    listFailure = Undefined =>
        /\ continuationToken = issued
        /\ objects = ToS3Objects(SubSeq(dataset, 1, served))
        /\ (pc = "list" /\ listCalls > 0) => issued # Undefined
        /\ Listed => (issued = Undefined /\ served = Len(dataset) /\ listCalls > 0)
        /\ (dataset = <<>> /\ pc # "list") => (pc = "done" /\ objects = <<>> /\ error = Undefined)

\* After a first page without entries that carried a token, the loop is about
\* to request the second page of a bucket that holds objects.
C6_Witness ==
    /\ pc = "list"
    /\ listCalls = 1
    /\ served = 0
    /\ issued # Undefined
    /\ Len(dataset) > 1

\* C7: the sequence getBucketObjects returns is the bucket's listing, whatever
\* pages the provider cut it into.
C7_PageBoundariesDoNotMatter ==
    Listed => objects = ToS3Objects(dataset)

\* A listing of several objects returned after more than one page.
C7_Witness ==
    /\ Listed
    /\ listCalls > 1
    /\ Len(objects) > 2

(***************************************************************************)
(* The plan.                                                               *)
(***************************************************************************)
\* A dry-run or restore command has its plan back from dryRunRestore.
Planned == cmd \in {"dry-run", "restore"} /\ Listed

\* C8 as stated: the plan is by size from the largest, equal sizes by
\* ascending key.
C8_SortedBySizeThenKey ==
    Planned =>
        \A i, j \in DOMAIN operation.objects :
            i < j =>
                \/ operation.objects[i].size > operation.objects[j].size
                \/ /\ operation.objects[i].size = operation.objects[j].size
                   /\ operation.objects[i].key < operation.objects[j].key

\* C8, amended: the plan is by size from the largest; objects of equal size
\* keep the order in which the provider listed them.
C8_SortedBySizeStable ==
    Planned =>
        \A i, j \in DOMAIN operation.objects :
            i < j =>
                \/ operation.objects[i].size > operation.objects[j].size
                \/ /\ operation.objects[i].size = operation.objects[j].size
                   /\ PlaceOf(operation.objects[i].key) < PlaceOf(operation.objects[j].key)

\* A plan of three objects that the sort has reordered: the smallest was listed
\* first, and the two largest are equal in size and listed against key order.
C8_Witness ==
    /\ Planned
    /\ Len(operation.objects) = 3
    /\ operation.objects[1].size = operation.objects[2].size
    /\ operation.objects[1].key > operation.objects[2].key
    /\ operation.objects[3].size < operation.objects[2].size
    /\ PlaceOf(operation.objects[3].key) = 1

RECURSIVE BytesAt(_)
BytesAt(places) ==
    IF places = {} THEN 0
    ELSE LET i == CHOOSE x \in places : TRUE
         IN  (IF dataset[i].Size = Undefined THEN 0 ELSE dataset[i].Size[1])
             + BytesAt(places \ {i})

\* C9: the plan holds the archival objects of the listing, each once and as
\* listed, and nothing else; totalSize is the sum of their sizes.
C9_PlanIsTheArchivalObjects ==
    Planned =>
        /\ { operation.objects[i].key : i \in DOMAIN operation.objects }
             = { dataset[i].Key[1] : i \in ArchivalPlaces }
        /\ Len(operation.objects) = Cardinality(ArchivalPlaces)
        /\ \A i \in DOMAIN operation.objects :
               /\ operation.objects[i].size = SizeOf(operation.objects[i].key)
               /\ Some(operation.objects[i].storageClass)
                    = dataset[PlaceOf(operation.objects[i].key)].StorageClass
        /\ operation.totalSize = BytesAt(ArchivalPlaces)
        /\ (pc = "done") => result = Some(operation)

\* A plan of two archival objects out of a listing that also holds others of
\* non-zero size.
C9_Witness ==
    /\ Planned
    /\ pc = "done"
    /\ Len(operation.objects) = 2
    /\ Len(dataset) = 3
    /\ BytesAt(DOMAIN dataset) > operation.totalSize

\* C10: on a bucket without objects dryRunRestore returns the empty plan with
\* totalSize 0, and unless a listing request fails the run ends normally,
\* without a restore request.
C10_EmptyBucket ==
    (cmd \in {"dry-run", "restore"} /\ dataset = <<>> /\ listFailure = Undefined
        /\ pc # "list") =>
        /\ pc = "done"
        /\ error = Undefined
        /\ result = Some([objects |-> <<>>, totalSize |-> 0])
        /\ restoreCalls = <<>>

\* A restore run on an empty bucket that has ended, after an empty page with a
\* token and a last empty page.
C10_Witness ==
    /\ cmd = "restore"
    /\ ~dryRun
    /\ dataset = <<>>
    /\ listCalls = 2
    /\ pc = "done"

(***************************************************************************)
(* Classification.                                                         *)
(***************************************************************************)
ArchivalKeys == { dataset[i].Key[1] : i \in ArchivalPlaces }

\* C11: an object is archival exactly when its storage class is GLACIER,
\* DEEP_ARCHIVE or GLACIER_IR, and exactly the archival objects are planned,
\* requested for restore and polled for status.
C11_ArchivalIsTheThreeClasses ==
    /\ Listed =>
         \A i \in DOMAIN objects :
             IsGlacier(objects[i]) <=> dataset[i].StorageClass \in ArchivalClasses
    /\ Planned =>
         { operation.objects[i].key : i \in DOMAIN operation.objects } = ArchivalKeys
    /\ cmd = "restore" =>
         /\ { restoreCalls[i] : i \in DOMAIN restoreCalls } \subseteq ArchivalKeys
         /\ (pc = "done" /\ ~dryRun) =>
              { restoreCalls[i] : i \in DOMAIN restoreCalls } = ArchivalKeys
    /\ cmd = "status" =>
         /\ { headCalls[i] : i \in DOMAIN headCalls } \subseteq ArchivalKeys
         /\ Listed => { glacierObjects[i].key : i \in DOMAIN glacierObjects } = ArchivalKeys
         /\ pc = "done" => { headCalls[i] : i \in DOMAIN headCalls } = ArchivalKeys

\* A status run has polled the one GLACIER_IR object of a bucket whose other
\* object has the look-alike class "glacier".
C11_Witness ==
    /\ cmd = "status"
    /\ pc = "done"
    /\ Len(dataset) = 2
    /\ dataset[1].StorageClass = Some("glacier")
    /\ dataset[2].StorageClass = Some("GLACIER_IR")
    /\ headCalls = <<2>>

\* The storage class getBucketObjects is to give an entry.
ExpectedClass(entry) ==
    IF entry.StorageClass \in {Undefined, Some("")} THEN "STANDARD"
    ELSE entry.StorageClass[1]

\* C12: classification is total.  Every entry, with any class string, the empty
\* one or none, is listed with a class and without an error; a missing or empty
\* class is STANDARD, a class that is none of the three archival ones is kept,
\* is not archival, and is never turned into UNKNOWN.
C12_ClassificationIsTotal ==
    /\ listFailure = Undefined => (pc # "failed" /\ error = Undefined)
    /\ Listed =>
         /\ Len(objects) = Len(dataset)
         /\ \A i \in DOMAIN objects :
              /\ objects[i].storageClass = ExpectedClass(dataset[i])
              /\ objects[i].storageClass # "UNKNOWN"
              /\ dataset[i].StorageClass \notin ArchivalClasses =>
                   /\ ~IsGlacier(objects[i])
                   /\ \A j \in DOMAIN operation.objects : operation.objects[j].key # i
                   /\ \A j \in DOMAIN glacierObjects : glacierObjects[j].key # i

\* A listing with an entry without a class and one with an unrecognized class
\* has been planned.
C12_Witness ==
    /\ Planned
    /\ pc = "done"
    /\ Len(dataset) = 2
    /\ dataset[1].StorageClass = Undefined
    /\ dataset[2].StorageClass = Some("STANDARD_IA")
    /\ operation.objects = <<>>

(***************************************************************************)
(* Status aggregation.                                                     *)
(***************************************************************************)
\* The status run returned its summary.
Aggregated == cmd = "status" /\ pc = "done"

\* The places of the polling loop where the metadata request failed.
FailedFetches == { i \in DOMAIN headAnswers : headAnswers[i] = Undefined }

KeysOf(results) == { results[i].key : i \in DOMAIN results }

\* C13: a failed metadata request is absorbed.  Its object is recorded as
\* UNKNOWN, not-requested, size 0; the request is still sent for every later
\* archival object; checkRestoreStatus returns a summary and does not throw.
C13_MetadataFailureAbsorbed ==
    cmd = "status" =>
        /\ listFailure = Undefined => (pc # "failed" /\ error = Undefined)
        /\ \A i \in FailedFetches :
             statusResults[i] =
                 [ key |-> headCalls[i], storageClass |-> "UNKNOWN",
                   restoreStatus |-> "not-requested", restoreExpiryDate |-> Undefined,
                   size |-> 0 ]
        /\ pc = "done" =>
             /\ result # Undefined
             /\ Len(headCalls) = Cardinality(ArchivalPlaces)
             /\ headCalls = [ i \in DOMAIN glacierObjects |-> glacierObjects[i].key ]
             /\ KeysOf(glacierObjects) = ArchivalKeys
             /\ \A i \in FailedFetches :
                  \E j \in DOMAIN result[1].notRequested :
                      result[1].notRequested[j] = statusResults[i]

\* The first and the third of three metadata requests failed, the second was
\* answered, and the summary was returned.
C13_Witness ==
    /\ Aggregated
    /\ Len(headCalls) = 3
    /\ FailedFetches = {1, 3}
    /\ statusResults[2].restoreStatus = "completed"

OngoingMarker == Some(<< [name |-> "ongoing-request", value |-> "true"] >>)
CompletedMarker ==
    Some(<< [name |-> "ongoing-request", value |-> "false"],
            [name |-> "expiry-date", value |-> "2024-01-01"] >>)

\* The places of the polling loop where the provider answered with this marker.
AnsweredWith(marker) ==
    { i \in DOMAIN headAnswers :
        headAnswers[i] # Undefined /\ headAnswers[i][1].Restore = marker }

\* C14: the restore state follows the marker.  ongoing-request="true" gives
\* in-progress; ongoing-request="false" with expiry-date="2024-01-01" gives
\* completed with that expiry; no marker gives not-requested.
C14_StateFollowsMarker ==
    /\ \A i \in AnsweredWith(OngoingMarker) :
         statusResults[i].restoreStatus = "in-progress"
    /\ \A i \in AnsweredWith(CompletedMarker) :
         /\ statusResults[i].restoreStatus = "completed"
         /\ statusResults[i].restoreExpiryDate = Some("2024-01-01")
    /\ \A i \in AnsweredWith(Undefined) :
         /\ statusResults[i].restoreStatus = "not-requested"
         /\ statusResults[i].restoreExpiryDate = Undefined

\* One run met the three markers.
C14_Witness ==
    /\ Aggregated
    /\ AnsweredWith(OngoingMarker) = {2}
    /\ AnsweredWith(CompletedMarker) = {3}
    /\ AnsweredWith(Undefined) = {1}

\* C15: in the returned summary every archival key of the listing is in exactly
\* one of inProgress, completed and notRequested, and the three lengths add up
\* to the number of archival objects.
C15_BucketsPartitionArchival ==
    Aggregated =>
        LET summary == result[1]
            buckets == <<summary.inProgress, summary.completed, summary.notRequested>>
        IN  /\ KeysOf(buckets[1]) \cup KeysOf(buckets[2]) \cup KeysOf(buckets[3])
                 = ArchivalKeys
            /\ \A a, b \in 1..3 : a # b => KeysOf(buckets[a]) \cap KeysOf(buckets[b]) = {}
            /\ \A a \in 1..3 : Cardinality(KeysOf(buckets[a])) = Len(buckets[a])
            /\ Len(buckets[1]) + Len(buckets[2]) + Len(buckets[3])
                 = Cardinality(ArchivalPlaces)
            /\ Len(summary.glacierObjects) = Cardinality(ArchivalPlaces)

\* A summary with an object in each bucket, one of them after a failed request.
C15_Witness ==
    /\ Aggregated
    /\ Len(result[1].inProgress) = 1
    /\ Len(result[1].completed) = 1
    /\ Len(result[1].notRequested) = 1
    /\ FailedFetches # {}

\* C16, as stated: the byte totals of the summary add up to the bytes of the
\* archival objects of the listing.
C16_TotalsAddUpToArchivalBytes ==
    Aggregated =>
        result[1].totalSizeInProgress + result[1].totalSizeCompleted
            = BytesAt(ArchivalPlaces)

\* C16, amended: the summary keeps a total for inProgress and one for completed,
\* each the sum of the sizes of the objects of its bucket, and none for
\* notRequested; the two add up to the archival bytes less the bytes of the
\* archival objects in notRequested.
C16_TotalsOfInProgressAndCompleted ==
    Aggregated =>
        LET summary == result[1]
            PlacesOf(bucket) == { PlaceOf(k) : k \in KeysOf(bucket) }
        IN  /\ DOMAIN summary =
                 { "bucketName", "glacierObjects", "inProgress", "completed",
                   "notRequested", "totalSizeInProgress", "totalSizeCompleted" }
            /\ summary.totalSizeInProgress = BytesAt(PlacesOf(summary.inProgress))
            /\ summary.totalSizeCompleted = BytesAt(PlacesOf(summary.completed))
            /\ summary.totalSizeInProgress + summary.totalSizeCompleted
                 = BytesAt(ArchivalPlaces) - BytesAt(PlacesOf(summary.notRequested))

\* A summary with bytes in progress, bytes completed, and bytes of an object
\* that is not requested.
C16_Witness ==
    /\ Aggregated
    /\ result[1].totalSizeInProgress = 100
    /\ result[1].totalSizeCompleted = 50
    /\ Len(result[1].notRequested) = 1
    /\ BytesAt(ArchivalPlaces) = 250

(***************************************************************************)
(* The end of a command.                                                   *)
(***************************************************************************)
\* The command ended as it should: with its summary and without an error when
\* the listing did not fail, with an error and no summary when it did.
EndedWell ==
    IF listFailure = Undefined
    THEN /\ pc = "done"
         /\ result # Undefined
         /\ error = Undefined
         /\ (cmd = "restore" /\ ShouldSubmit(operation)) =>
              /\ console # <<>>
              /\ console[Len(console)] = Summary(successCount, errorCount)
         /\ cmd = "status" => DOMAIN result[1] = DOMAIN EmptySummary
    ELSE /\ pc = "failed"
         /\ result = Undefined
         /\ error # Undefined

\* C17: every command comes to its end, and when the listing did not fail it
\* ends with its summary and without an error, whatever restore requests were
\* rejected and whatever metadata requests failed; it ends with an error and
\* without a summary only when the listing failed.
C17_SummaryUnlessListingFails ==
    /\ <>Ended
    /\ [](Ended => EndedWell)

\* A restore run whose every request was rejected has ended with its summary.
C17_Witness ==
    /\ cmd = "restore"
    /\ pc = "done"
    /\ Len(outcomes) = 2
    /\ Accepted = {}
    /\ result # Undefined
    /\ console[Len(console)] = Summary(0, 2)

(***************************************************************************)
(* The plan of a restore.                                                  *)
(***************************************************************************)
\* C18: restoreObjects(bucket, false) returns the plan dryRunRestore(bucket)
\* returns for the same listing, the same objects in the same order with the
\* same totalSize, whatever requests were accepted or rejected.
C18_RestoreReturnsTheDryRunPlan ==
    (cmd \in {"dry-run", "restore"} /\ pc = "done") =>
        /\ result = Some(PlanOf(ToS3Objects(dataset)))
        /\ result[1].objects = operation.objects
        /\ result[1].totalSize = operation.totalSize

\* A restore has returned its plan of three objects after one request was
\* accepted and two were rejected.
C18_Witness ==
    /\ cmd = "restore"
    /\ ~dryRun
    /\ pc = "done"
    /\ Len(result[1].objects) = 3
    /\ Cardinality(Accepted) = 1
    /\ Cardinality(Rejected) = 2
    /\ result[1].totalSize = 250

(***************************************************************************)
(* The expiry of a completed restore.                                      *)
(***************************************************************************)
\* The marker says ongoing-request="false" and carries no expiry-date that is
\* a date.
FinishedWithoutDate(restoreInfo) ==
    /\ Includes(restoreInfo, "ongoing-request", "false")
    /\ ~Includes(restoreInfo, "ongoing-request", "true")
    /\ \A i \in DOMAIN restoreInfo :
         restoreInfo[i].name = "expiry-date" => ~IsDate(restoreInfo[i].value)

\* C19: a marker with ongoing-request="false" whose expiry date is missing or
\* is not a date gives completed with the expiry unknown: no expiry in the
\* status, "Unknown" on the display, and no error.
C19_UnparsedExpiryIsUnknown ==
    /\ cmd = "status" /\ listFailure = Undefined => error = Undefined
    /\ \A i \in DOMAIN headAnswers :
         ( /\ headAnswers[i] # Undefined
           /\ headAnswers[i][1].Restore # Undefined
           /\ FinishedWithoutDate(headAnswers[i][1].Restore[1]) ) =>
             /\ statusResults[i].restoreStatus = "completed"
             /\ statusResults[i].restoreExpiryDate = Undefined
             /\ ExpiryShown(statusResults[i]) = "Unknown"

(***************************************************************************)
(* Progress lines.                                                         *)
(***************************************************************************)
ProgressLines == { i \in DOMAIN console : console[i].kind = "progress" }

\* C20: while restore requests are submitted, a progress line is written
\* exactly when the number of objects processed, accepted or rejected, reaches
\* a multiple of 10.
C20_ProgressEveryTenProcessed ==
    (cmd = "restore" /\ ~dryRun) =>
        /\ Cardinality(ProgressLines) = Len(outcomes) \div ProgressEvery
        /\ \A i \in ProgressLines : console[i].processed % ProgressEvery = 0

(***************************************************************************)
(* The order of the requests.                                              *)
(***************************************************************************)
\* The places of the requests of one command in the sequence of requests sent.
SentOf(command) == { i \in DOMAIN sent : sent[i].command = command }

\* C21: the run is sequential.  At every moment at most one request, list
\* page, restore request or metadata query, is sent and not yet settled, and
\* none is left when the command ends.
C21_OneRequestOutstanding ==
    /\ Outstanding \in {0, 1}
    /\ Ended => Outstanding = 0
    /\ Len(sent) = Cardinality(SentOf("ListObjectsV2"))
                   + Cardinality(SentOf("RestoreObject"))
                   + Cardinality(SentOf("HeadObject"))

\* The second metadata query is outstanding, after two list pages and the
\* first metadata query were settled.
C21_Witness ==
    /\ cmd = "status"
    /\ listCalls = 2
    /\ Len(headCalls) = 1
    /\ Len(sent) = 4
    /\ sent[4].command = "HeadObject"
    /\ Outstanding = 1

\* What holds of the list requests at every moment of a run.
EachPageRequestedOnce ==
    /\ sent # <<>> => sent[1] = Request("ListObjectsV2", Undefined, Undefined)
    /\ \A i \in SentOf("ListObjectsV2") :
         i > 1 =>
             /\ sent[i].ContinuationToken # Undefined
             /\ Offset(sent[i - 1].ContinuationToken) <= Offset(sent[i].ContinuationToken)
    /\ (pc = "list" /\ Awaiting) => sent[Len(sent)].ContinuationToken = continuationToken
    /\ Cardinality(SentOf("ListObjectsV2")) \in {listCalls, listCalls + 1}
    /\ (pc # "list" /\ listFailure = Undefined) =>
         /\ issued = Undefined
         /\ served = Len(dataset)
         /\ Cardinality(SentOf("ListObjectsV2")) = listCalls

\* C22: the listing is finite.  When the provider's chain of tokens ends after
\* P pages, getBucketObjects ends after exactly P list requests, one for each
\* page: the first without a token, each other one with the token of the page
\* before it.
C22_ListingEndsAfterItsPages ==
    /\ <>(pc # "list")
    /\ []EachPageRequestedOnce

\* A listing of two pages has ended after two requests, the second with the
\* token of the first page.
C22_Witness ==
    /\ pc # "list"
    /\ listFailure = Undefined
    /\ listCalls = 2
    /\ Cardinality(SentOf("ListObjectsV2")) = 2
    /\ sent[2].ContinuationToken # Undefined
    /\ Len(objects) = 2

\* C23: the listing is complete before any work on an object.  Every list
\* request comes before every restore request and every metadata query, and
\* none of these is sent while a page of the listing is still to be fetched.
C23_ListingBeforeObjectWork ==
    /\ \A i, j \in DOMAIN sent :
         (i < j /\ sent[j].command = "ListObjectsV2") => sent[i].command = "ListObjectsV2"
    /\ (SentOf("RestoreObject") \cup SentOf("HeadObject")) # {} =>
         /\ listFailure = Undefined
         /\ continuationToken = Undefined
         /\ issued = Undefined
         /\ served = Len(dataset)
         /\ Len(objects) = Len(dataset)
    /\ SentOf("RestoreObject") # {} => (cmd = "restore" /\ ~dryRun)
    /\ SentOf("HeadObject") # {} => cmd = "status"

\* A restore request was sent after a listing of two pages.
C23_Witness ==
    /\ cmd = "restore"
    /\ listCalls = 2
    /\ Len(sent) = 3
    /\ sent[2].command = "ListObjectsV2"
    /\ sent[3].command = "RestoreObject"

(***************************************************************************)
(* The requests of a status run.                                           *)
(***************************************************************************)
\* C24: after its listing a status run sends one metadata query for each
\* archival object, in the order of the listing and not of the sizes, none for
\* another object, none when no object is archival, and no restore request.
C24_OneQueryPerArchivalInListingOrder ==
    cmd = "status" =>
        /\ restoreCalls = <<>>
        /\ outcomes = <<>>
        /\ headCalls # <<>> => Listed
        /\ \A i \in DOMAIN headCalls : PlaceOf(headCalls[i]) \in ArchivalPlaces
        /\ \A i, j \in DOMAIN headCalls :
             i < j => PlaceOf(headCalls[i]) < PlaceOf(headCalls[j])
        /\ ArchivalPlaces = {} => headCalls = <<>>
        /\ pc = "done" =>
             /\ { PlaceOf(headCalls[i]) : i \in DOMAIN headCalls } = ArchivalPlaces
             /\ Len(headCalls) = Cardinality(ArchivalPlaces)

\* The smaller archival object is listed first and queried first; the standard
\* object between the two is not queried.
C24_Witness ==
    /\ cmd = "status"
    /\ pc = "done"
    /\ Len(dataset) = 3
    /\ ArchivalPlaces = {1, 3}
    /\ SizeOf(1) = 50
    /\ SizeOf(3) = 100
    /\ headCalls = <<1, 3>>

(***************************************************************************)
(* Markers without a plain state.                                          *)
(***************************************************************************)
\* The places of the polling loop where the provider answered with a marker.
AnsweredWithMarker ==
    { i \in DOMAIN headAnswers :
        headAnswers[i] # Undefined /\ headAnswers[i][1].Restore # Undefined }

\* The marker of such a place.
MarkerAt(i) == headAnswers[i][1].Restore[1]

NeitherOngoing(restoreInfo) ==
    /\ restoreInfo # <<>>
    /\ ~Includes(restoreInfo, "ongoing-request", "true")
    /\ ~Includes(restoreInfo, "ongoing-request", "false")

OngoingWithExpiry(restoreInfo) ==
    /\ Includes(restoreInfo, "ongoing-request", "true")
    /\ \E i \in DOMAIN restoreInfo : restoreInfo[i].name = "expiry-date"

AnsweredNeitherOngoing == { i \in AnsweredWithMarker : NeitherOngoing(MarkerAt(i)) }
AnsweredOngoingWithExpiry == { i \in AnsweredWithMarker : OngoingWithExpiry(MarkerAt(i)) }

\* C25: a marker that is there but holds neither ongoing-request="true" nor
\* ongoing-request="false" gives not-requested, without expiry and without
\* error; a marker that holds ongoing-request="true" gives in-progress even
\* when it carries an expiry date.
C25_MarkerWithoutPlainState ==
    /\ (cmd = "status" /\ listFailure = Undefined) => (error = Undefined /\ pc # "failed")
    /\ \A i \in AnsweredNeitherOngoing :
         /\ statusResults[i].restoreStatus = "not-requested"
         /\ statusResults[i].restoreExpiryDate = Undefined
    /\ \A i \in AnsweredOngoingWithExpiry :
         statusResults[i].restoreStatus = "in-progress"

\* One run met a marker with an expiry date only and a marker with
\* ongoing-request="true" and an expiry date.
C25_Witness ==
    /\ Aggregated
    /\ AnsweredNeitherOngoing = {1}
    /\ AnsweredOngoingWithExpiry = {2}
    /\ Len(result[1].notRequested) = 1
    /\ Len(result[1].inProgress) = 1

====
